---- MODULE Spec2Model ----
(***************************************************************************)
(* A model of the texera python client: the plan converter                 *)
(* (client/converter.py) and the interactive websocket session             *)
(* (client/texera_python_client.py): the sender coroutine that turns user  *)
(* commands into request messages, the receiver coroutine that dispatches  *)
(* server events and completes exports, the module-level export_requests   *)
(* table they share, and connect_loop, which gathers the two.              *)
(*                                                                         *)
(* Both coroutines run on one asyncio event loop, so a step of the model   *)
(* is the code between two suspension points (await ws.send, await         *)
(* run_in_executor, the async-for over the websocket).                     *)
(***************************************************************************)
EXTENDS Integers, Sequences, FiniteSets, TLC

\* ---------------------------------------------------------------- bounds
MaxCmds == 2      \* command lines the user types in one session
DataRows == 3     \* rows in the result set of an operator on the server
MaxLinks == 2     \* links in a workflow document given to the converter

\* ------------------------------------------------------- program constants
dataTransferBatchSize == 400
engineVersion == "3a1c33d6f"

\* ------------------------------------------------------------ input sets
Ops == {"opA"}
Sizes == {1, 2}
Pages == {1, 2}
Dirs == {"d1", "d2"}
NoExport == "<none>"          \* ns.export is None
NoName == "<none>"            \* ns.name is None
Keys == Ops \X Pages

\* ---------------------------------------------------------------- helpers
Min(a, b) == IF a < b THEN a ELSE b

Range(s) == {s[i] : i \in 1..Len(s)}

Last(s) == s[Len(s)]

RECURSIVE SeqMap(_, _)
SeqMap(F(_), s) == IF s = <<>> THEN <<>> ELSE <<F(Head(s))>> \o SeqMap(F, Tail(s))

RECURSIVE Count(_, _)
Count(P(_), s) == IF s = <<>> THEN 0 ELSE (IF P(Head(s)) THEN 1 ELSE 0) + Count(P, Tail(s))

\* zero-based index of the first element of s satisfying P, -1 when there is
\* none (next(i for i, x in enumerate(s) if P(x)) raising StopIteration)
RECURSIVE FirstIndex(_, _)
FirstIndex(P(_), s) ==
    IF s = <<>> THEN -1
    ELSE IF P(Head(s)) THEN 0
    ELSE LET r == FirstIndex(P, Tail(s)) IN IF r = -1 THEN -1 ELSE r + 1

\* ------------------------------------------------- converter.py (pure part)
\* A python dict is a function whose domain is the set of keys present.
Get(d, k, default) == IF k \in DOMAIN d THEN d[k] ELSE default

StructuralFields == {"operatorID", "operatorType", "inputPorts", "outputPorts"}

\* converter.py:40-46; the dict display raises KeyError when a field is absent
OperatorOk(operator) ==
    StructuralFields \cup {"operatorProperties"} \subseteq DOMAIN operator

\* a flattening in which the properties override the structural fields
NewOperatorPropertiesWin(operator) ==
    [k \in DOMAIN operator.operatorProperties \cup StructuralFields |->
        IF k \in DOMAIN operator.operatorProperties
        THEN operator.operatorProperties[k] ELSE operator[k]]

NewOperator(operator) ==
    [k \in DOMAIN operator.operatorProperties \cup StructuralFields |->
        IF k \in StructuralFields THEN operator[k] ELSE operator.operatorProperties[k]]

\* zero-based position of the first operator with this id, -1 when none
FindOperator(workflow_dict, operatorID) ==
    FirstIndex(LAMBDA op : op.operatorID = operatorID, workflow_dict.operators)

\* a lookup that counts the ports from one
get_input_port_ordinal_from_one(workflow_dict, operatorID, inputPortID) ==
    LET o == FindOperator(workflow_dict, operatorID)
        r == FirstIndex(LAMBDA port : port.portID = inputPortID,
                        workflow_dict.operators[o + 1].inputPorts)
    IN IF o = -1 \/ r = -1 THEN -1 ELSE r + 1

get_input_port_ordinal(workflow_dict, operatorID, inputPortID) ==
    LET o == FindOperator(workflow_dict, operatorID) IN
    IF o = -1 THEN -1
    ELSE FirstIndex(LAMBDA port : port.portID = inputPortID,
                    workflow_dict.operators[o + 1].inputPorts)

get_output_port_ordinal(workflow_dict, operatorID, outputPortID) ==
    LET o == FindOperator(workflow_dict, operatorID) IN
    IF o = -1 THEN -1
    ELSE FirstIndex(LAMBDA port : port.portID = outputPortID,
                    workflow_dict.operators[o + 1].outputPorts)

\* a converter whose port lookups return -1 instead of raising
LinkOkUnchecked(workflow_dict, link) == "operators" \in DOMAIN workflow_dict

\* converter.py:51-52 raise (KeyError, StopIteration) unless both ends resolve
LinkOk(workflow_dict, link) ==
    /\ "operators" \in DOMAIN workflow_dict
    /\ get_output_port_ordinal(workflow_dict, link.source.operatorID, link.source.portID) # -1
    /\ get_input_port_ordinal(workflow_dict, link.target.operatorID, link.target.portID) # -1

NewLink(workflow_dict, link) ==
    [fromOpId |-> link.source.operatorID,
     fromPortId |-> [id |-> get_output_port_ordinal(workflow_dict,
                               link.source.operatorID, link.source.portID),
                     internal |-> FALSE],
     toOpId |-> link.target.operatorID,
     toPortId |-> [id |-> get_input_port_ordinal(workflow_dict,
                             link.target.operatorID, link.target.portID),
                   internal |-> FALSE]]

\* whether convertWorkflowContentToLogicalPlan returns rather than raises
ConvertOk(workflow_dict) ==
    /\ \A i \in 1..Len(Get(workflow_dict, "operators", <<>>)) :
          OperatorOk(workflow_dict.operators[i])
    /\ \A i \in 1..Len(Get(workflow_dict, "links", <<>>)) :
          LinkOk(workflow_dict, workflow_dict.links[i])

\* a converter that copies the two id lists without looking at the operators
convertUnfiltered(workflow_dict) ==
    LET operators == Get(workflow_dict, "operators", <<>>)
        links == Get(workflow_dict, "links", <<>>)
    IN [operators |-> SeqMap(NewOperator, operators),
        links |-> SeqMap(LAMBDA l : NewLink(workflow_dict, l), links),
        opsToReuseResult |-> Range(Get(workflow_dict, "opsToReuseResult", <<>>)),
        opsToViewResult |-> Range(Get(workflow_dict, "opsToViewResult", <<>>))]

\* list(set.intersection(list)) has no defined order: the two lists are sets here
convertWorkflowContentToLogicalPlan(workflow_dict) ==
    LET operators == Get(workflow_dict, "operators", <<>>)
        links == Get(workflow_dict, "links", <<>>)
        operator_ids == {operators[i].operatorID : i \in 1..Len(operators)}
    IN [operators |-> SeqMap(NewOperator, operators),
        links |-> SeqMap(LAMBDA l : NewLink(workflow_dict, l), links),
        opsToReuseResult |->
            operator_ids \cap Range(Get(workflow_dict, "opsToReuseResult", <<>>)),
        opsToViewResult |->
            operator_ids \cap Range(Get(workflow_dict, "opsToViewResult", <<>>))]

\* ------------------------------------------------------- plan files on disk
Port(id) == [portID |-> id]

ScanOp == [operatorID |-> "scan", operatorType |-> "CSVScan",
           operatorProperties |-> [fileName |-> "in.csv"],
           inputPorts |-> <<>>, outputPorts |-> <<Port("out0")>>]

SinkOp == [operatorID |-> "sink", operatorType |-> "ViewResults",
           operatorProperties |-> [limit |-> "10"],
           inputPorts |-> <<Port("in0"), Port("in1")>>, outputPorts |-> <<>>]

LinkOf(fromOp, fromPort, toOp, toPort) ==
    [source |-> [operatorID |-> fromOp, portID |-> fromPort],
     target |-> [operatorID |-> toOp, portID |-> toPort]]

\* a user workflow document every link of which resolves
GoodWorkflow ==
    [operators |-> <<ScanOp, SinkOp>>,
     links |-> <<LinkOf("scan", "out0", "sink", "in1")>>,
     operatorPositions |-> "positions",
     opsToViewResult |-> <<"sink", "ghost">>]

\* a user workflow document with a link to a port that does not exist
BadPortWorkflow ==
    [operators |-> <<ScanOp, SinkOp>>,
     links |-> <<LinkOf("scan", "out0", "sink", "in7")>>,
     operatorPositions |-> "positions"]

\* a user workflow document with a link to an operator that does not exist
BadOperatorWorkflow ==
    [operators |-> <<ScanOp, SinkOp>>,
     links |-> <<LinkOf("nowhere", "out0", "sink", "in0")>>,
     operatorPositions |-> "positions"]

\* an engine-facing logical plan, sent as it is
ReadyPlan ==
    [operators |-> <<NewOperator(ScanOp)>>, links |-> <<>>,
     opsToReuseResult |-> {}, opsToViewResult |-> {}]

EmptyDoc == [operators |-> <<>>]

\* --------------------------------------- documents given to the converter
\* an operator whose properties name two of the structural fields, and whose
\* port lists repeat a portID
JoinOp == [operatorID |-> "join", operatorType |-> "HashJoin",
           operatorProperties |-> [buildKey |-> "k", operatorType |-> "Shadow",
                                   inputPorts |-> "none"],
           inputPorts |-> <<Port("in0"), Port("in1"), Port("in0")>>,
           outputPorts |-> <<Port("out0"), Port("out1"), Port("out1")>>]

\* a second operator with the id of ScanOp, its ports the other way round
ScanTwin == [operatorID |-> "scan", operatorType |-> "JSONScan",
             operatorProperties |-> [operatorID |-> "twin"],
             inputPorts |-> <<>>, outputPorts |-> <<Port("out1"), Port("out0")>>]

\* an operator without operatorProperties
BareOp == [operatorID |-> "bare", operatorType |-> "Limit",
           inputPorts |-> <<Port("in0")>>, outputPorts |-> <<Port("out0")>>]

OperatorLists ==
    {<<>>, <<ScanOp, SinkOp>>, <<ScanOp, JoinOp, SinkOp>>,
     <<JoinOp, ScanTwin, ScanOp, SinkOp>>, <<SinkOp, ScanOp, ScanTwin, JoinOp>>,
     <<ScanOp, BareOp, SinkOp>>}

\* link ends: some resolve in some operator lists, some in none
SourceEnds == {<<"scan", "out0">>, <<"scan", "out1">>, <<"join", "out1">>,
               <<"nowhere", "out0">>}
TargetEnds == {<<"join", "in1">>, <<"sink", "in0">>, <<"sink", "in7">>}

DocLinks == {LinkOf(s[1], s[2], t[1], t[2]) : s \in SourceEnds, t \in TargetEnds}

LinkLists == UNION {[1..n -> DocLinks] : n \in 0..MaxLinks}

\* what a document may carry as opsToViewResult and opsToReuseResult; Absent
\* stands for a document without the field
Absent == "<absent>"
ViewLists == {Absent, <<>>, <<"sink", "ghost">>, <<"scan", "sink", "scan">>}
ReuseLists == {Absent, <<"join", "ghost", "join">>}

\* the document with these fields, as json.loads returns it (line 18)
Document(operators, links, view, reuse) ==
    LET base == [operators |-> operators, links |-> links,
                 operatorPositions |-> "positions"]
        withView == IF view = Absent THEN base
                    ELSE ("opsToViewResult" :> view) @@ base
    IN IF reuse = Absent THEN withView
       ELSE ("opsToReuseResult" :> reuse) @@ withView

Documents ==
    {Document(o, l, v, r) : o \in OperatorLists, l \in LinkLists,
                            v \in ViewLists, r \in ReuseLists}

\* A file the user can name: isfile is os.path.isfile(plan_path), readable is
\* whether read_text returns, marker is whether the text contains
\* '"operatorPositions"', json is whether json.loads returns, content is the
\* parsed document, stem is Path(plan_path).stem
File(isfile, readable, marker, json, content, stem) ==
    [isfile |-> isfile, readable |-> readable, marker |-> marker, json |-> json,
     content |-> content, stem |-> stem]

FileSystem ==
    [p \in {"missing.json", "locked.json", "broken.json", "brokenflow.json",
            "plan.json", "flow.json", "badport.json", "badop.json"} |->
        CASE p = "missing.json" -> File(FALSE, FALSE, FALSE, FALSE, EmptyDoc, "missing")
          [] p = "locked.json" -> File(TRUE, FALSE, FALSE, FALSE, EmptyDoc, "locked")
          [] p = "broken.json" -> File(TRUE, TRUE, FALSE, FALSE, EmptyDoc, "broken")
          [] p = "brokenflow.json" -> File(TRUE, TRUE, TRUE, FALSE, EmptyDoc, "brokenflow")
          [] p = "plan.json" -> File(TRUE, TRUE, FALSE, TRUE, ReadyPlan, "plan")
          [] p = "flow.json" -> File(TRUE, TRUE, TRUE, TRUE, GoodWorkflow, "flow")
          [] p = "badport.json" -> File(TRUE, TRUE, TRUE, TRUE, BadPortWorkflow, "badport")
          [] p = "badop.json" -> File(TRUE, TRUE, TRUE, TRUE, BadOperatorWorkflow, "badop")]

PlanFiles == DOMAIN FileSystem

\* ------------------------------------------------------------ user commands
KillCmd == [command |-> "kill"]
PageCmd(operator, size, page, export) ==
    [command |-> "page", operator |-> operator, size |-> size, page |-> page,
     export |-> export]
ExecCmd(plan, name) == [command |-> "exec", plan |-> plan, name |-> name]

\* lines argparse accepts (texera_python_client.py:31-65): the page commands
\* (every size and page with and without an export to d1),
PageCommands ==
    {PageCmd(o, s, p, e) : o \in Ops, s \in Sizes, p \in Pages, e \in {"d1", NoExport}}

\* the exec commands,
ExecCommands ==
    {ExecCmd(f, NoName) : f \in PlanFiles} \cup {ExecCmd("plan.json", "run1")}

\* and the commands of a session that pages through results: page 1 in
\* both sizes and page 2 in size 2, the short last page
Commands == {ns \in PageCommands : ns.page = 1 \/ ns.size = 2}

\* the commands of a session that loads plans, with a kill, a page with an
\* export and a page without beside them
PlanCommands ==
    ExecCommands \cup {KillCmd, PageCmd("opA", 2, 1, "d1"), PageCmd("opA", 1, 2, NoExport)}

\* the commands of a session with two exports asked for one page, to two
\* directories and with two sizes, and one for another page
PairCommands ==
    {PageCmd("opA", 1, 1, "d1"), PageCmd("opA", 2, 1, "d2"),
     PageCmd("opA", 1, 2, "d1"), PageCmd("opA", 2, 1, NoExport)}

\* the commands of a session that watches events
WatchCommands == {PageCmd("opA", 2, 1, "d1"), PageCmd("opA", 1, 2, NoExport)}

\* ------------------------------------------------------------- input lines
\* A line is the words and the runs of blanks the user typed, in order.
Blank == " "

\* line.strip().split(), line 189
Split(line) == SelectSeq(line, LAMBDA w : w # Blank)

\* int(word) of argparse's type=int: the words it converts
IntOf == [w \in {"1", "2"} |-> IF w = "1" THEN 1 ELSE 2]

\* parse_args exits (an unknown subcommand, a missing or extra argument, a
\* size or page that is no integer): SystemExit, caught at line 194
SystemExit == [command |-> "SystemExit"]

\* a parser that takes any unknown first word for kill
parse_args_lenient(parts) ==
    IF parts[1] \in {"exec", "page"} THEN SystemExit ELSE KillCmd

\* cmd_parser.parse_args(parts), lines 31-65 and 193, for the --export
\* option written after the positional arguments
parse_args(parts) ==
    CASE parts[1] = "kill" ->
           IF Len(parts) = 1 THEN KillCmd ELSE SystemExit
      [] parts[1] = "exec" ->
           IF Len(parts) = 2 THEN ExecCmd(parts[2], NoName)
           ELSE IF Len(parts) = 3 THEN ExecCmd(parts[2], parts[3])
           ELSE SystemExit
      [] parts[1] = "page" ->
           IF /\ Len(parts) \in {4, 6}
              /\ parts[3] \in DOMAIN IntOf
              /\ parts[4] \in DOMAIN IntOf
              /\ Len(parts) = 6 => parts[5] \in {"--export", "-e"}
           THEN PageCmd(parts[2], IntOf[parts[3]], IntOf[parts[4]],
                        IF Len(parts) = 6 THEN parts[6] ELSE NoExport)
           ELSE SystemExit
      [] OTHER -> SystemExit

\* whether the loop body of sender gets past lines 190-195 with this line
Accepted(line) ==
    /\ Split(line) # <<>>
    /\ parse_args(Split(line)) # SystemExit

\* the lines of a session in which the user mistypes
Lines ==
    {<<>>, <<Blank>>, <<"frobnicate">>, <<"kill", Blank, "now">>,
     <<"page", Blank, "opA", Blank, "x", Blank, "1">>,
     <<"page", Blank, "opA", Blank, "2">>,
     <<"exec">>,
     <<"kill">>, <<Blank, "kill", Blank>>,
     <<"page", Blank, "opA", Blank, "2", Blank, "1", Blank, "--export", Blank, "d1">>,
     <<"page", Blank, "opA", Blank, "1", Blank, "2">>}

\* ---------------------------------------------------------- request messages
\* handle_kill
KillMsg == [type |-> "WorkflowKillRequest"]

\* handle_page, lines 79-85
PageMsg(ns) ==
    [type |-> "ResultPaginationRequest",
     requestID |-> <<"req", ns.operator, ns.size, ns.page>>,
     operatorID |-> ns.operator, pageIndex |-> ns.page, pageSize |-> ns.size]

\* handle_exec, lines 91-105: whether a logical plan is obtained
PlanLoads(ns) ==
    LET f == FileSystem[ns.plan] IN
    /\ f.isfile
    /\ f.readable
    /\ f.json
    /\ f.marker => ConvertOk(f.content)

logical_plan(ns) ==
    LET f == FileSystem[ns.plan] IN
    IF f.marker THEN convertWorkflowContentToLogicalPlan(f.content) ELSE f.content

\* handle_exec, lines 94 and 106-113
ExecMsg(ns) ==
    [type |-> "WorkflowExecuteRequest",
     executionName |-> IF ns.name # NoName THEN ns.name ELSE FileSystem[ns.plan].stem,
     engineVersion |-> engineVersion,
     logicalPlan |-> logical_plan(ns),
     workflowSettings |-> [dataTransferBatchSize |-> dataTransferBatchSize],
     emailNotificationEnabled |-> FALSE]

\* whether handling the command reaches an await ws.send
Sends(ns) ==
    \/ ns.command \in {"kill", "page"}
    \/ ns.command = "exec" /\ PlanLoads(ns)

\* the message the command hands to ws.send
MsgOf(ns) ==
    CASE ns.command = "kill" -> KillMsg
      [] ns.command = "page" -> PageMsg(ns)
      [] ns.command = "exec" -> ExecMsg(ns)


\* ------------------------------------------------------------ server events
DurationEvent(duration, isRunning) ==
    [type |-> "ExecutionDurationUpdateEvent", duration |-> duration,
     isRunning |-> isRunning]
StateEvent(state) == [type |-> "WorkflowStateEvent", state |-> state]
ResultUpdateEvent(updates) == [type |-> "WebResultUpdateEvent", updates |-> updates]
OtherEvent == [type |-> "WorkerAssignmentUpdateEvent"]

\* req is not on the wire: it records which request message the server answers
PaginatedEvent(operatorID, pageIndex, table, req) ==
    [type |-> "PaginatedResultEvent", operatorID |-> operatorID,
     pageIndex |-> pageIndex, table |-> table, schema |-> "schema", req |-> req]

\* the events of a workflow run, which answer no page request
RunEvents ==
    <<StateEvent("Running"), DurationEvent(500, TRUE),
      ResultUpdateEvent([opA |-> [totalNumTuples |-> DataRows]]), OtherEvent,
      DurationEvent(12345, FALSE)>>

\* a server that sends one event of a kind the client does not handle
QuietRun == <<OtherEvent>>

\* the server's page pageIndex (from 1) of pageSize rows of an operator's result
PageRows(operatorID, pageSize, pageIndex) ==
    LET first == (pageIndex - 1) * pageSize + 1
        last == Min(pageIndex * pageSize, DataRows)
    IN [i \in 1..(IF last < first THEN 0 ELSE last - first + 1) |->
            [op |-> operatorID, row |-> first + i - 1]]

\* ------------------------------------------------------------------- state
VARIABLES
    session,          \* "Connecting", "Active", "Closed" (connect_loop's async with)
    gpc,              \* connect_loop: "connect", "gather", "closing", "exited"
    spc,              \* sender: "idle", "input", "sending", "raised", "cancelled"
    rpc,              \* receiver: "idle", "recv", "done", "failed", "cancelled"
    wsOpen,           \* the transport carries frames
    sent,             \* messages handed to ws.send, in order
    answered,         \* indexes of sent page requests the server has answered
    queue,            \* frames the websocket holds for the receiver, each
                      \* numbered in the order the transport delivered it
    emitted,          \* how many unrequested events the server has sent
    export_requests,  \* (operator, page) -> (export directory, requested size)
    files,            \* the export files on disk: path -> lines
    issued,           \* history: the commands handled, each with its place in sent
    handled,          \* history: the number of the frame the receiver took last
    writes,           \* history: every export the receiver attempted
    reported,         \* the final execution times the receiver logged
    document,         \* converter: the parsed workflow document (workflow_dict)
    converted         \* converter: what the call came to, and the plan returned

vars == <<session, gpc, spc, rpc, wsOpen, sent, answered, queue, emitted,
          export_requests, files, issued, handled, writes, reported, document,
          converted>>

sessionVars == <<session, gpc, spc, rpc, wsOpen, sent, answered, queue, emitted,
                 export_requests, files, issued, handled, writes, reported>>

NoEntries == [k \in {} |-> <<NoExport, 0>>]
NoFiles == [p \in {} |-> <<>>]

\* no call of the converter is being followed
NotCalled == [outcome |-> "not called"]

SessionInit ==
    /\ session = "Connecting"
    /\ gpc = "connect"
    /\ spc = "idle"
    /\ rpc = "idle"
    /\ wsOpen = FALSE
    /\ sent = <<>>
    /\ answered = {}
    /\ queue = <<>>
    /\ export_requests = NoEntries
    /\ files = NoFiles
    /\ issued = <<>>
    /\ emitted = 0
    /\ handled = 0
    /\ writes = <<>>
    /\ reported = <<>>

Init ==
    /\ SessionInit
    /\ document = EmptyDoc
    /\ converted = NotCalled

\* ---------------------------------------------------------------- connect_loop
\* websockets.connect succeeds: gather starts the receiver and the sender
Connected ==
    /\ gpc = "connect"
    /\ gpc' = "gather"
    /\ session' = "Active"
    /\ wsOpen' = TRUE
    /\ spc' = "input"
    /\ rpc' = "recv"
    /\ UNCHANGED <<document, converted, reported, sent, answered, queue, export_requests, files, issued,
                   emitted, handled, writes>>

\* websockets.connect raises: "Connection failed" is logged
ConnectFailed ==
    /\ gpc = "connect"
    /\ gpc' = "exited"
    /\ session' = "Closed"
    /\ UNCHANGED <<document, converted, reported, spc, rpc, wsOpen, sent, answered, queue, export_requests,
                   files, issued, emitted, handled, writes>>

\* gather re-raises the first exception of either coroutine; leaving the
\* async with awaits ws.close(): the connection takes no more messages while
\* both coroutines are still scheduled
GatherRaised ==
    /\ gpc = "gather"
    /\ rpc = "failed" \/ spc = "raised"
    /\ gpc' = "closing"
    /\ wsOpen' = FALSE
    /\ UNCHANGED <<document, converted, reported, session, spc, rpc, sent,
                   answered, queue, export_requests, files, issued, emitted,
                   handled, writes>>

\* an exit that leaves both coroutines scheduled
CloseReturnedTasksKept ==
    /\ gpc = "closing"
    /\ gpc' = "exited"
    /\ session' = "Closed"
    /\ UNCHANGED <<document, converted, reported, spc, rpc, wsOpen, sent,
                   answered, queue, export_requests, files, issued, emitted,
                   handled, writes>>

\* ws.close() returns, "Connection failed" is logged, connect_loop returns
\* and asyncio.run cancels what still runs
CloseReturned ==
    /\ gpc = "closing"
    /\ gpc' = "exited"
    /\ session' = "Closed"
    /\ spc' = IF spc \in {"input", "sending"} THEN "cancelled" ELSE spc
    /\ rpc' = IF rpc = "recv" THEN "cancelled" ELSE rpc
    /\ UNCHANGED <<document, converted, reported, wsOpen, sent, answered, queue,
                   export_requests, files, issued, emitted, handled, writes>>

\* --------------------------------------------------------------------- sender
\* input() raises EOFError: the sender coroutine ends with it
UserEOF ==
    /\ spc = "input"
    /\ spc' = "raised"
    /\ UNCHANGED <<document, converted, reported, session, gpc, rpc, wsOpen, sent, answered, queue,
                   export_requests, files, issued, emitted, handled, writes>>

\* a handle_page that files the request under (operator, size)
TableKeyedBySize(table, ns) ==
    IF ns.command = "page" /\ ns.export # NoExport
    THEN (<<ns.operator, ns.size>> :> <<ns.export, ns.size>>) @@ table
    ELSE table

\* a handle_kill that also forgets the exports asked for
TableClearedByKill(table, ns) ==
    IF ns.command = "kill" THEN NoEntries
    ELSE IF ns.command = "page" /\ ns.export # NoExport
    THEN (<<ns.operator, ns.page>> :> <<ns.export, ns.size>>) @@ table
    ELSE table

\* a handle_page that keeps the entry a key already has
TableKeepsFirst(table, ns) ==
    IF ns.command = "page" /\ ns.export # NoExport
    THEN table @@ (<<ns.operator, ns.page>> :> <<ns.export, ns.size>>)
    ELSE table

\* handle_page, lines 76-77
TableAfterCommand(table, ns) ==
    IF ns.command = "page" /\ ns.export # NoExport
    THEN (<<ns.operator, ns.page>> :> <<ns.export, ns.size>>) @@ table
    ELSE table

\* a connection that puts the newest message ahead of the earlier ones
SentAheadOfEarlier(messages, ns) == <<MsgOf(ns)>> \o messages

\* await ws.send(json.dumps(...)) on an open connection
SentAfterCommand(messages, ns) == Append(messages, MsgOf(ns))

\* input() returns a line that argparse accepts, and the sender runs
\* handle_kill, handle_page or handle_exec on it up to the await of ws.send
\* (lines 188-205)
HandleCommand(ns) ==
    /\ spc = "input"
    /\ Len(issued) < MaxCmds
    /\ export_requests' = TableAfterCommand(export_requests, ns)
    /\ IF Sends(ns)
       THEN IF wsOpen
            THEN /\ sent' = SentAfterCommand(sent, ns)
                 /\ issued' = Append(issued, [cmd |-> ns, sentAt |-> Len(sent) + 1])
                 /\ spc' = "sending"
            ELSE \* ws.send raises ConnectionClosed
                 /\ sent' = sent
                 /\ issued' = Append(issued, [cmd |-> ns, sentAt |-> 0])
                 /\ spc' = "raised"
       ELSE \* handle_exec logged the failure and returned
            /\ sent' = sent
            /\ issued' = Append(issued, [cmd |-> ns, sentAt |-> 0])
            /\ spc' = "input"
    /\ UNCHANGED <<document, converted, reported, session, gpc, rpc, wsOpen, answered, queue, files, emitted,
                   handled, writes>>

\* input() returns a line: blank (line 190) or refused by argparse (line 194)
\* the loop goes back to input() having done nothing; otherwise the sender
\* handles the command parsed from it
HandleLine(line) ==
    IF Accepted(line)
    THEN HandleCommand(parse_args(Split(line)))
    ELSE /\ spc = "input"
         /\ Len(issued) < MaxCmds
         /\ issued' = Append(issued, [cmd |-> SystemExit, sentAt |-> 0])
         /\ UNCHANGED <<document, converted, reported, session, gpc, spc, rpc, wsOpen, sent, answered, queue,
                        export_requests, files, emitted, handled, writes>>

\* a send of a page request that returns only once the server has answered
SendReturnedAfterReply ==
    /\ spc = "sending"
    /\ Last(sent).type = "ResultPaginationRequest" => Len(sent) \in answered
    /\ spc' = "input" \/ (~wsOpen /\ spc' = "raised")
    /\ UNCHANGED <<document, converted, reported, session, gpc, rpc, wsOpen,
                   sent, answered, queue, export_requests, files, issued,
                   emitted, handled, writes>>

\* ws.send returns, the sender logs and loops back to input(); or the
\* connection was lost while send waited, and it raises ConnectionClosed
SendReturned ==
    /\ spc = "sending"
    /\ spc' = "input" \/ (~wsOpen /\ spc' = "raised")
    /\ UNCHANGED <<document, converted, reported, session, gpc, rpc, wsOpen, sent, answered, queue,
                   export_requests, files, issued, emitted, handled, writes>>

\* --------------------------------------------------------------------- server
PageRequests == {i \in 1..Len(sent) : sent[i].type = "ResultPaginationRequest"}

\* the transport hands the websocket its next frame
Deliver(event) ==
    queue' = Append(queue, [seq |-> handled + Len(queue) + 1, event |-> event])

\* the server answers a page request it has not answered yet
ServerReply(i) ==
    /\ wsOpen
    /\ i \in PageRequests \ answered
    /\ answered' = answered \cup {i}
    /\ Deliver(PaginatedEvent(sent[i].operatorID, sent[i].pageIndex,
                   PageRows(sent[i].operatorID, sent[i].pageSize, sent[i].pageIndex), i))
    /\ UNCHANGED <<document, converted, reported, session, gpc, spc, rpc, wsOpen, sent, emitted,
                   export_requests, files, issued, handled, writes>>

\* the server reports progress, or sends a kind the client does not know:
\* the next event of the run it is making
ServerEvent(run) ==
    /\ wsOpen
    /\ emitted < Len(run)
    /\ emitted' = emitted + 1
    /\ Deliver(run[emitted + 1])
    /\ UNCHANGED <<document, converted, reported, session, gpc, spc, rpc, wsOpen, sent, answered,
                   export_requests, files, issued, handled, writes>>

\* the server or the network closes the connection
TransportClosed ==
    /\ wsOpen
    /\ wsOpen' = FALSE
    /\ UNCHANGED <<document, converted, reported, session, gpc, spc, rpc, sent, answered, queue,
                   export_requests, files, issued, emitted, handled, writes>>

\* ------------------------------------------------------------------- receiver
\* key = (op, pg), line 151
EventKey(event) == <<event.operatorID, event.pageIndex>>

\* line 152: the event is a page with a pending export request
Matches(table, event) ==
    /\ event.type = "PaginatedResultEvent"
    /\ EventKey(event) \in DOMAIN table

\* a receiver that reads the entry and leaves it in the table
TableKeptAfterEvent(table, event) == table

\* a receiver that drops every entry of the operator of a page event
TableClearedForOperator(table, event) ==
    IF event.type = "PaginatedResultEvent"
    THEN [k \in {q \in DOMAIN table : q[1] # event.operatorID} |-> table[k]]
    ELSE table

\* a receiver that writes back the table it read before the export, less
\* the key, and so loses what was written meanwhile
TableLosesOthers(table, event) ==
    IF Matches(table, event) THEN NoEntries ELSE table

\* export_requests.pop(key), line 153
TableAfterEvent(table, event) ==
    IF Matches(table, event)
    THEN [k \in DOMAIN table \ {EventKey(event)} |-> table[k]]
    ELSE table

\* a receiver that names the file by the number of rows it received
ExportPathByRowCount(table, event) ==
    [dir |-> table[EventKey(event)][1],
     name |-> <<event.operatorID, Len(event.table), event.pageIndex, "jsonl">>]

\* out_dir / f"{op}_{req_size}_{pg}.jsonl", lines 153-156
ExportPath(table, event) ==
    [dir |-> table[EventKey(event)][1],
     name |-> <<event.operatorID, table[EventKey(event)][2], event.pageIndex, "jsonl">>]

\* json.dumps(row, ensure_ascii=False) followed by "\n", lines 159-160
JsonLine(row) == <<"json", row, "\n">>

\* lines 157-160: one line per row, in the order of the table
ExportLines(event) == SeqMap(JsonLine, event.table)

\* a websocket that hands out the newest frame first
NewestFrame(frames) == frames[Len(frames)]

\* the frame the async-for hands out next, and the frames it leaves
NextFrame(frames) == Head(frames)
NextEvent(frames) == NextFrame(frames).event
RestFrames(frames) == Tail(frames)

\* durations that end in 5 and whose quotient by 1000, as the binary float
\* python computes, lies above the decimal half: 12345 / 1000 is
\* 12.3450000000000006..., which "{:.2f}" rounds up, while 1005 / 1000 is
\* 1.00499999999999989... and 125 / 1000 is exactly 0.125, which it rounds
\* to the even 0.12
HalvesAbove == {12345}

\* a format that keeps the whole seconds only
FormatWholeSeconds(dur_ms) == [whole |-> dur_ms \div 1000, hundredths |-> 0]

\* "{:.2f}".format(dur_ms / 1000), line 130: the digits before and after the
\* point, for a duration that is not negative
FormatSeconds(dur_ms) ==
    LET down == dur_ms \div 10
        rest == dur_ms % 10
        nearest == IF rest > 5 \/ (rest = 5 /\ dur_ms \in HalvesAbove)
                   THEN down + 1 ELSE down
    IN [whole |-> nearest \div 100, hundredths |-> nearest % 100]

\* lines 126-130: the final execution time logged for the event, if any
ReportedAfterEvent(log, event) ==
    IF event.type = "ExecutionDurationUpdateEvent" /\ ~event.isRunning
    THEN Append(log, FormatSeconds(event.duration))
    ELSE log

\* an event with no pending export: logged, nothing else (lines 126-152)
DispatchEvent ==
    /\ rpc = "recv"
    /\ queue # <<>>
    /\ ~Matches(export_requests, NextEvent(queue))
    /\ queue' = RestFrames(queue)
    /\ handled' = NextFrame(queue).seq
    /\ export_requests' = TableAfterEvent(export_requests, NextEvent(queue))
    /\ reported' = ReportedAfterEvent(reported, NextEvent(queue))
    /\ UNCHANGED <<document, converted, session, gpc, spc, rpc, wsOpen, sent, answered, files,
                   issued, emitted, writes>>

\* a page with a pending export, and the directory and the file can be written
ExportPage ==
    /\ rpc = "recv"
    /\ queue # <<>>
    /\ Matches(export_requests, NextEvent(queue))
    /\ LET event == NextEvent(queue)
           path == ExportPath(export_requests, event)
       IN /\ files' = (path :> ExportLines(event)) @@ files
          /\ writes' = Append(writes, [key |-> EventKey(event), path |-> path,
                                       rows |-> event.table, req |-> event.req,
                                       io |-> "ok"])
          /\ handled' = NextFrame(queue).seq
          /\ export_requests' = TableAfterEvent(export_requests, event)
    /\ queue' = RestFrames(queue)
    /\ UNCHANGED <<document, converted, reported, session, gpc, spc, rpc, wsOpen, sent, answered, issued,
                   emitted>>

\* a page with a pending export, and mkdir or open raises OSError ("nofile"),
\* or a write raises after n complete lines ("partial"); nothing in receiver
\* catches it, so the coroutine ends with the exception
ExportFails(io, n) ==
    /\ rpc = "recv"
    /\ queue # <<>>
    /\ Matches(export_requests, NextEvent(queue))
    /\ LET event == NextEvent(queue)
           path == ExportPath(export_requests, event)
       IN /\ \/ io = "nofile" /\ n = 0 /\ files' = files
             \/ /\ io = "partial"
                /\ n < Len(event.table)
                /\ files' = (path :> SubSeq(ExportLines(event), 1, n)) @@ files
          /\ writes' = Append(writes, [key |-> EventKey(event), path |-> path,
                                       rows |-> event.table, req |-> event.req,
                                       io |-> io])
          /\ handled' = NextFrame(queue).seq
          /\ export_requests' = TableAfterEvent(export_requests, event)
    /\ queue' = RestFrames(queue)
    /\ rpc' = "failed"
    /\ UNCHANGED <<document, converted, reported, session, gpc, spc, wsOpen, sent, answered, issued,
                   emitted>>

\* the connection is closed and every frame was handed out: the async-for
\* ends (ConnectionClosed is caught, line 171) and receiver returns
ReceiverReturned ==
    /\ rpc = "recv"
    /\ queue = <<>>
    /\ ~wsOpen
    /\ rpc' = "done"
    /\ UNCHANGED <<document, converted, reported, session, gpc, spc, wsOpen, sent, answered, queue,
                   export_requests, files, issued, emitted, handled, writes>>

\* ------------------------------------------------------------ the converter
\* list(a_set), lines 64-65: the elements once each, in an order python
\* does not define
ListsOf(S) == {l \in [1..Cardinality(S) -> S] : Range(l) = S}

\* the call returns the logical plan (line 67)
ConvertReturns ==
    /\ converted = NotCalled
    /\ ConvertOk(document)
    /\ LET plan == convertWorkflowContentToLogicalPlan(document) IN
       \E view \in ListsOf(plan.opsToViewResult) :
          \E reuse \in ListsOf(plan.opsToReuseResult) :
             converted' = [outcome |-> "returned",
                           plan |-> [operators |-> plan.operators,
                                     links |-> plan.links,
                                     opsToReuseResult |-> reuse,
                                     opsToViewResult |-> view]]
    /\ UNCHANGED <<document, sessionVars>>

\* the call raises KeyError (line 41) or StopIteration (lines 30-35)
ConvertRaises ==
    /\ converted = NotCalled
    /\ ~ConvertOk(document)
    /\ converted' = [outcome |-> "raised"]
    /\ UNCHANGED <<document, sessionVars>>

\* --------------------------------------------------------------- specification
SystemStep ==
    \/ Connected
    \/ ConnectFailed
    \/ GatherRaised
    \/ CloseReturned
    \/ SendReturned
    \/ DispatchEvent
    \/ ExportPage
    \/ \E io \in {"nofile", "partial"} : \E n \in 0..DataRows : ExportFails(io, n)
    \/ ReceiverReturned

\* what the user (beside typing a command), the server and the network may
\* do, given the unrequested events the server sends
EnvironmentStep(run) ==
    \/ UserEOF
    \/ \E i \in 1..MaxCmds : ServerReply(i)
    \/ ServerEvent(run)
    \/ TransportClosed

Next ==
    \/ SystemStep
    \/ \E ns \in Commands : HandleCommand(ns)
    \/ EnvironmentStep(QuietRun)

Spec == Init /\ [][Next]_vars

\* a session that loads plan files
PlanNext ==
    \/ SystemStep
    \/ \E ns \in PlanCommands : HandleCommand(ns)
    \/ EnvironmentStep(QuietRun)

PlanSpec == Init /\ [][PlanNext]_vars

\* a session in which the server sends every kind of event
WatchNext ==
    \/ SystemStep
    \/ \E ns \in WatchCommands : HandleCommand(ns)
    \/ EnvironmentStep(RunEvents)

WatchSpec == Init /\ [][WatchNext]_vars

\* The event loop runs every coroutine that is ready; nothing obliges the user
\* to type a line, the server to send or the transport to close.
Fairness ==
    /\ WF_vars(GatherRaised)
    /\ WF_vars(CloseReturned)
    /\ WF_vars(SendReturned)
    /\ WF_vars(DispatchEvent \/ ExportPage
                  \/ \E io \in {"nofile", "partial"} :
                         \E n \in 0..DataRows : ExportFails(io, n))
    /\ WF_vars(ReceiverReturned)

\* a short session, for the properties of what eventually happens
LiveNext ==
    \/ SystemStep
    \/ \E ns \in WatchCommands : HandleCommand(ns)
    \/ EnvironmentStep(QuietRun)

FairSpec == Init /\ [][LiveNext]_vars /\ Fairness

\* a session that asks twice for the export of one page
PairNext ==
    \/ SystemStep
    \/ \E ns \in PairCommands : HandleCommand(ns)
    \/ EnvironmentStep(QuietRun)

PairSpec == Init /\ [][PairNext]_vars

\* a session in which the user mistypes
LineNext ==
    \/ SystemStep
    \/ \E line \in Lines : HandleLine(line)
    \/ EnvironmentStep(QuietRun)

LineSpec == Init /\ [][LineNext]_vars

\* one call of the converter, on any of the documents
ConvertInit ==
    /\ SessionInit
    /\ document \in Documents
    /\ converted = NotCalled

ConvertNext ==
    \/ ConvertReturns
    \/ ConvertRaises

ConvertSpec == ConvertInit /\ [][ConvertNext]_vars

TypeOK ==
    /\ session \in {"Connecting", "Active", "Closed"}
    /\ gpc \in {"connect", "gather", "closing", "exited"}
    /\ spc \in {"idle", "input", "sending", "raised", "cancelled"}
    /\ rpc \in {"idle", "recv", "done", "failed", "cancelled"}
    /\ wsOpen \in BOOLEAN
    /\ DOMAIN export_requests \subseteq Keys
    /\ \A key \in DOMAIN export_requests :
          export_requests[key] \in Dirs \X Sizes

\* ===================================================================== claims
\* the receiver takes a page event whose key has a pending export request
TakesMatchingPage ==
    /\ rpc = "recv"
    /\ queue # <<>>
    /\ handled' # handled
    /\ Matches(export_requests, NextEvent(queue))

\* the receiver takes an event that matches no pending export request
TakesOtherEvent ==
    /\ rpc = "recv"
    /\ queue # <<>>
    /\ handled' # handled
    /\ ~Matches(export_requests, NextEvent(queue))

\* the export attempted in this step, when there is one
ExportsNow == Len(writes') = Len(writes) + 1

IsExportCmd(ns) == ns.command = "page" /\ ns.export # NoExport

ExportCmdsFor(key) ==
    Count(LAMBDA c : IsExportCmd(c.cmd) /\ <<c.cmd.operator, c.cmd.page>> = key, issued)

WritesFor(key) == Count(LAMBDA w : w.key = key, writes)

\* the file {dir}/{operator}_{size}_{page}.jsonl holds exactly the rows of the
\* event, one line each, in order, and no other file changed
WrittenExactly(dir, operator, size, page, rows) ==
    LET path == [dir |-> dir, name |-> <<operator, size, page, "jsonl">>] IN
    /\ DOMAIN files' = DOMAIN files \cup {path}
    /\ Len(files'[path]) = Len(rows)
    /\ \A i \in 1..Len(rows) : files'[path][i] = <<"json", rows[i], "\n">>
    /\ \A q \in DOMAIN files \ {path} : files'[q] = files[q]

C2_ConsumedAtMostOnce ==
    /\ [](\A key \in Keys : WritesFor(key) <= ExportCmdsFor(key))
    /\ [][TakesOtherEvent => files' = files /\ writes' = writes]_vars

C2_Witness ==
    \E key \in Keys :
        /\ WritesFor(key) = 1
        /\ ExportCmdsFor(key) = 1
        /\ Cardinality({i \in answered : <<sent[i].operatorID, sent[i].pageIndex>> = key}) = 2
        /\ queue = <<>>
        /\ handled >= 2

\* the command whose request message is the i-th message sent
CommandOfRequest(i) ==
    (CHOOSE c \in Range(issued) : c.sentAt = i).cmd

\* C3 as stated: every export file holds the rows of the reply to the page
\* command that carried the export directive naming the file (its directory
\* and its requested size), never the reply to another page command for the
\* same (operator, pageIndex).
C3_AsStated ==
    \A i \in 1..Len(writes) :
        LET ns == CommandOfRequest(writes[i].req) IN
        /\ ns.export = writes[i].path.dir
        /\ ns.size = writes[i].path.name[2]

\* C4 as stated: an export that fails on the directory or the file leaves the
\* receiver in its loop and the session Active.
C4_AsStated ==
    [][(ExportsNow /\ Last(writes').io # "ok") =>
          (rpc' = "recv" /\ session' = "Active")]_vars

\* C5 as stated: once the receiver has returned (transport closed) or the
\* sender has ended (end of input), the session reaches Closed with no
\* further command from the user.
C5_AsStated ==
    (rpc = "done" \/ spc = "raised") ~> (session = "Closed")

\* the plan files of FileSystem that are missing, unreadable, malformed or
\* unconvertible
BadPlanFiles ==
    {"missing.json", "locked.json", "broken.json", "brokenflow.json",
     "badport.json", "badop.json"}

HandlesBadExec ==
    /\ Len(issued') = Len(issued) + 1
    /\ Last(issued').cmd.command = "exec"
    /\ Last(issued').cmd.plan \in BadPlanFiles

\* C6: an exec command on a missing, unreadable, malformed or unconvertible
\* plan file sends nothing, leaves export_requests as it was, and leaves the
\* session Active with the sender back at its prompt.
C6_BadPlanSendsNothing ==
    [][HandlesBadExec =>
          /\ sent' = sent
          /\ export_requests' = export_requests
          /\ session' = "Active"
          /\ spc' = "input"]_vars

C6_Witness ==
    /\ Len(issued) = 2
    /\ IsExportCmd(issued[1].cmd)
    /\ issued[2].cmd = ExecCmd("badport.json", NoName)
    /\ Len(sent) = 1
    /\ DOMAIN export_requests # {}
    /\ spc = "input"
    /\ session = "Active"

\* the messages of the commands that got one onto the connection, in the
\* order the commands were issued
RECURSIVE MessagesOf(_)
MessagesOf(cmds) ==
    IF cmds = <<>> THEN <<>>
    ELSE (IF Head(cmds).sentAt # 0 THEN <<MsgOf(Head(cmds).cmd)>> ELSE <<>>)
         \o MessagesOf(Tail(cmds))

\* C7: the messages sent are the messages of the commands issued, in command
\* order, none twice; kill and page always produce one and exec produces one
\* when its plan loads, unless the connection was closed, which ends the
\* sender at that command.
C7_SentInCommandOrder ==
    /\ sent = MessagesOf(issued)
    /\ \A i \in 1..Len(issued) :
          /\ issued[i].sentAt # 0 => Sends(issued[i].cmd)
          /\ (Sends(issued[i].cmd) /\ issued[i].sentAt = 0) =>
                (i = Len(issued) /\ spc \in {"raised", "cancelled"})

C7_Witness ==
    /\ Len(sent) = 2
    /\ sent[1].type = "ResultPaginationRequest"
    /\ sent[2].type = "WorkflowExecuteRequest"

\* the most frames a short session can receive
MaxFrames == MaxCmds + Len(QuietRun)

\* C8: the receiver takes frames in the order the transport delivered them,
\* skipping none (the frames waiting are the next ones after the last one
\* taken), and every frame delivered is eventually taken unless the session
\* closes.
C8_EventsInOrderNoneDropped ==
    /\ [](\A i \in 1..Len(queue) : queue[i].seq = handled + i)
    /\ [][handled' \in {handled, handled + 1}]_vars
    /\ \A n \in 1..MaxFrames :
          (handled + Len(queue) >= n) ~> (handled >= n \/ session = "Closed")

C8_Witness ==
    /\ handled >= 1
    /\ Len(queue) >= 2
    /\ \E i \in 1..Len(writes) : writes[i].io = "ok"

\* C9: when the request message of a page command with an export directive
\* goes out, the entry for its (operator, pageIndex) is in the table with that
\* command's directory and size; so whenever such a request has been sent its
\* entry is pending or has been consumed by an export.
C9_EntryBeforeRequest ==
    /\ [][(Len(sent') = Len(sent) + 1 /\ IsExportCmd(Last(issued').cmd)) =>
            LET ns == Last(issued').cmd IN
            /\ <<ns.operator, ns.page>> \in DOMAIN export_requests'
            /\ export_requests'[<<ns.operator, ns.page>>] = <<ns.export, ns.size>>]_vars
    /\ [](\A i \in 1..Len(issued) :
            (IsExportCmd(issued[i].cmd) /\ issued[i].sentAt # 0) =>
               LET key == <<issued[i].cmd.operator, issued[i].cmd.page>> IN
               key \in DOMAIN export_requests \/ WritesFor(key) >= 1)

C9_Witness ==
    \E i \in 1..Len(issued) :
        /\ IsExportCmd(issued[i].cmd)
        /\ issued[i].sentAt \in answered
        /\ \E j \in 1..Len(writes) : writes[j].req = issued[i].sentAt

BadLines ==
    {<<>>, <<Blank>>, <<"frobnicate">>, <<"kill", Blank, "now">>,
     <<"page", Blank, "opA", Blank, "x", Blank, "1">>,
     <<"page", Blank, "opA", Blank, "2">>, <<"exec">>}

RejectsLine ==
    /\ Len(issued') = Len(issued) + 1
    /\ Last(issued').cmd = SystemExit

\* C11: an empty or blank line, an unknown command and a command that does
\* not parse are each refused, and the step that refuses a line sends nothing,
\* leaves export_requests as it was, and leaves the session Active with the
\* sender back at its prompt.
C11_BadLineOnlyItself ==
    /\ \A line \in BadLines : ~Accepted(line)
    /\ [][RejectsLine =>
             /\ sent' = sent
             /\ export_requests' = export_requests
             /\ session' = "Active"
             /\ spc' = "input"]_vars

C11_Witness ==
    /\ Len(issued) = 2
    /\ IsExportCmd(issued[1].cmd)
    /\ issued[2].cmd = SystemExit
    /\ Len(sent) = 1
    /\ DOMAIN export_requests = {<<"opA", 1>>}
    /\ spc = "input"
    /\ session = "Active"

\* the first operator of the document with this id, as line 30 finds it
OperatorNamed(doc, id) ==
    LET i == CHOOSE i \in 1..Len(doc.operators) :
                 /\ doc.operators[i].operatorID = id
                 /\ \A j \in 1..(i - 1) : doc.operators[j].operatorID # id
    IN doc.operators[i]

\* the zero-based place of the first port of the list with this portID
PlaceOf(ports, id) ==
    (CHOOSE i \in 1..Len(ports) :
        /\ ports[i].portID = id
        /\ \A j \in 1..(i - 1) : ports[j].portID # id) - 1

\* C12: when the converter returns, the plan has one link per link of the
\* document, in the document's order, and each carries the operator ids of
\* the link, fromPortId.id the zero-based place of source.portID (first
\* match) in the source operator's outputPorts, toPortId.id the zero-based
\* place of target.portID in the target operator's inputPorts, and internal
\* false on both.
C12_LinkOrdinals ==
    converted.outcome = "returned" =>
        LET links == Get(document, "links", <<>>) IN
        /\ Len(converted.plan.links) = Len(links)
        /\ \A i \in 1..Len(links) :
              converted.plan.links[i] =
                 [fromOpId |-> links[i].source.operatorID,
                  fromPortId |->
                     [id |-> PlaceOf(OperatorNamed(document,
                                        links[i].source.operatorID).outputPorts,
                                     links[i].source.portID),
                      internal |-> FALSE],
                  toOpId |-> links[i].target.operatorID,
                  toPortId |->
                     [id |-> PlaceOf(OperatorNamed(document,
                                        links[i].target.operatorID).inputPorts,
                                     links[i].target.portID),
                      internal |-> FALSE]]

C12_Witness ==
    /\ converted.outcome = "returned"
    /\ document.operators = <<JoinOp, ScanTwin, ScanOp, SinkOp>>
    /\ document.links = <<LinkOf("scan", "out0", "join", "in1"),
                          LinkOf("join", "out1", "sink", "in0")>>
    /\ converted.plan.links[1].fromPortId.id = 1
    /\ converted.plan.links[1].toPortId.id = 1
    /\ converted.plan.links[2].fromPortId.id = 1
    /\ converted.plan.links[2].toPortId.id = 0

\* the operatorIDs present in the operators of the document
OperatorIds(doc) ==
    {Get(doc, "operators", <<>>)[i].operatorID :
        i \in 1..Len(Get(doc, "operators", <<>>))}

\* the list out holds exactly the ids of the field of the document that are
\* operator ids, each once
FilteredList(out, doc, field) ==
    /\ Range(out) = OperatorIds(doc) \cap Range(Get(doc, field, <<>>))
    /\ \A i, j \in 1..Len(out) : out[i] = out[j] => i = j
    /\ field \notin DOMAIN doc => out = <<>>

\* C13: when the converter returns, opsToViewResult and opsToReuseResult of
\* the plan each hold exactly the ids of the document's list that are ids of
\* its operators, each id once whatever the order; ids of no operator are
\* dropped and a document without the list gets an empty list.
C13_ResultListsFiltered ==
    converted.outcome = "returned" =>
        /\ FilteredList(converted.plan.opsToViewResult, document, "opsToViewResult")
        /\ FilteredList(converted.plan.opsToReuseResult, document, "opsToReuseResult")

C13_Witness ==
    /\ converted.outcome = "returned"
    /\ document.operators = <<ScanOp, JoinOp, SinkOp>>
    /\ "opsToViewResult" \in DOMAIN document
    /\ document.opsToViewResult = <<"scan", "sink", "scan">>
    /\ "opsToReuseResult" \in DOMAIN document
    /\ document.opsToReuseResult = <<"join", "ghost", "join">>
    /\ converted.plan.opsToViewResult = <<"sink", "scan">>
    /\ converted.plan.opsToReuseResult = <<"join">>

\* C18: when the converter returns, the plan has one operator per operator of
\* the document, in the document's order; each has the keys of its
\* operatorProperties and the four structural fields, the structural fields
\* with the operator's own values even when operatorProperties has a key of
\* that name, and every other key with the property's value.
C18_OperatorsFlattened ==
    converted.outcome = "returned" =>
        LET operators == Get(document, "operators", <<>>) IN
        /\ Len(converted.plan.operators) = Len(operators)
        /\ \A i \in 1..Len(operators) :
              LET operator == operators[i]
                  new_operator == converted.plan.operators[i]
              IN /\ DOMAIN new_operator =
                       DOMAIN operator.operatorProperties \cup
                       {"operatorID", "operatorType", "inputPorts", "outputPorts"}
                 /\ new_operator.operatorID = operator.operatorID
                 /\ new_operator.operatorType = operator.operatorType
                 /\ new_operator.inputPorts = operator.inputPorts
                 /\ new_operator.outputPorts = operator.outputPorts
                 /\ \A k \in DOMAIN operator.operatorProperties \
                              {"operatorID", "operatorType", "inputPorts", "outputPorts"} :
                       new_operator[k] = operator.operatorProperties[k]

C18_Witness ==
    /\ converted.outcome = "returned"
    /\ document.operators = <<SinkOp, ScanOp, ScanTwin, JoinOp>>
    /\ converted.plan.operators[3].operatorID = "scan"
    /\ converted.plan.operators[4].operatorType = "HashJoin"
    /\ converted.plan.operators[4].buildKey = "k"
    /\ Len(converted.plan.operators[4].inputPorts) = 3

\* the receiver takes an ExecutionDurationUpdateEvent that is not running
TakesFinalDuration ==
    /\ rpc = "recv"
    /\ queue # <<>>
    /\ handled' # handled
    /\ NextEvent(queue).type = "ExecutionDurationUpdateEvent"
    /\ ~NextEvent(queue).isRunning

\* the milliseconds that the digits of a report stand for
MillisOf(report) == report.whole * 1000 + report.hundredths * 10

\* C14 as stated: processing a final duration event reports exactly one
\* duration, and it is the carried milliseconds divided by 1000 with every
\* millisecond digit kept (12345 is reported as 12.345 seconds).
C14_AsStated ==
    [][TakesFinalDuration =>
          /\ Len(reported') = Len(reported) + 1
          /\ MillisOf(Last(reported')) = NextEvent(queue).duration]_vars

\* C14 amended: processing a final duration event reports exactly one
\* duration, the carried milliseconds divided by 1000 to the nearest
\* hundredth of a second (12345 is reported as 12.35); no other event
\* reports a duration.
C14_FinalDurationTwoDecimals ==
    [][/\ TakesFinalDuration =>
             /\ Len(reported') = Len(reported) + 1
             /\ SubSeq(reported', 1, Len(reported)) = reported
             /\ LET d == NextEvent(queue).duration
                    r == MillisOf(Last(reported'))
                IN r - d <= 5 /\ d - r <= 5
       /\ ~TakesFinalDuration => reported' = reported]_vars

C14_Witness ==
    /\ reported = <<[whole |-> 12, hundredths |-> 35]>>
    /\ handled >= Len(RunEvents)

\* C19: the connection is attempted once (connect_loop never goes back to
\* connecting); the session only goes from Connecting to Active on a
\* handshake that succeeds, from Connecting to Closed on one that fails, and
\* from Active to Closed once the connection is closed and a coroutine has
\* ended with an error; once Closed it stays Closed, nothing more is sent and
\* no further event is processed.
C19_SessionOnceClosedTerminal ==
    /\ [][gpc' = "connect" => gpc = "connect"]_vars
    /\ [][session' # session =>
             \/ session = "Connecting" /\ session' = "Active" /\ wsOpen'
             \/ session = "Connecting" /\ session' = "Closed" /\ sent = <<>>
             \/ /\ session = "Active"
                /\ session' = "Closed"
                /\ ~wsOpen
                /\ rpc = "failed" \/ spc = "raised"]_vars
    /\ [][session = "Closed" =>
             /\ session' = "Closed"
             /\ sent' = sent
             /\ handled' = handled
             /\ files' = files
             /\ reported' = reported]_vars

C19_Witness ==
    /\ session = "Closed"
    /\ gpc = "exited"
    /\ Len(sent) = 1
    /\ Len(issued) = 1
    /\ queue # <<>>
    /\ spc = "cancelled"
    /\ rpc = "failed"

\* the last command issued so far that asked for the export of this key
LastExportFor(key) ==
    LET places == {i \in 1..Len(issued) :
                      /\ IsExportCmd(issued[i].cmd)
                      /\ <<issued[i].cmd.operator, issued[i].cmd.page>> = key}
    IN issued[CHOOSE i \in places : \A j \in places : j <= i].cmd

\* two or more exports were asked for the key and none was made yet
TwoPending(key) == ExportCmdsFor(key) >= 2 /\ WritesFor(key) = 0

SenderStep == Len(issued') = Len(issued) + 1
ReceiverStep == handled' # handled

\* C15: in every interleaving of the two coroutines, a step that changes the
\* table is a step of one of them alone; the receiver's membership test and
\* removal are one step with no write of the sender between, it removes a
\* key only when the test found it (the receiver never fails but on the
\* export's I/O), and it leaves every entry of another key, whenever the
\* sender wrote it, as it was; the sender removes nothing.
C15_CorrelatorSafe ==
    [][/\ ~(SenderStep /\ ReceiverStep)
       /\ export_requests' # export_requests => SenderStep \/ ReceiverStep
       /\ SenderStep =>
             \A key \in DOMAIN export_requests : key \in DOMAIN export_requests'
       /\ ReceiverStep =>
             LET event == NextEvent(queue) IN
             IF Matches(export_requests, event)
             THEN /\ DOMAIN export_requests' =
                        DOMAIN export_requests \ {EventKey(event)}
                  /\ \A key \in DOMAIN export_requests' :
                        export_requests'[key] = export_requests[key]
                  /\ rpc' = "failed" => Last(writes').io # "ok"
             ELSE /\ export_requests' = export_requests
                  /\ rpc' = "recv"]_vars

C15_Witness ==
    /\ spc = "sending"
    /\ Len(issued) = 2
    /\ issued[1].cmd = PageCmd("opA", 1, 1, "d1")
    /\ issued[2].cmd = PageCmd("opA", 1, 2, "d1")
    /\ Len(writes) = 1
    /\ writes[1].key = <<"opA", 1>>
    /\ DOMAIN export_requests = {<<"opA", 2>>}
    /\ rpc = "recv"

\* C16: a kill, an exec (whether or not its plan loads) and a page without
\* an export directive leave the table as it was; a page with an export
\* directive sets the entry of its key and leaves the others; no command
\* removes an entry.
C16_OnlyExportPageWrites ==
    [][SenderStep =>
          LET ns == Last(issued').cmd IN
          /\ ns.command \in {"kill", "exec"} => export_requests' = export_requests
          /\ (ns.command = "page" /\ ns.export = NoExport) =>
                export_requests' = export_requests
          /\ (ns.command = "page" /\ ns.export # NoExport) =>
                /\ DOMAIN export_requests' =
                      DOMAIN export_requests \cup {<<ns.operator, ns.page>>}
                /\ export_requests'[<<ns.operator, ns.page>>] = <<ns.export, ns.size>>
                /\ \A key \in DOMAIN export_requests \ {<<ns.operator, ns.page>>} :
                      export_requests'[key] = export_requests[key]
          /\ \A key \in DOMAIN export_requests : key \in DOMAIN export_requests']_vars

C16_Witness ==
    /\ Len(issued) = 2
    /\ IsExportCmd(issued[1].cmd)
    /\ issued[2].cmd \in {KillCmd, ExecCmd("flow.json", NoName)}
    /\ Len(sent) = 2
    /\ DOMAIN export_requests = {<<"opA", 1>>}
    /\ writes = <<>>

\* the receiver's step on the next frame
ReceiverTakes ==
    \/ DispatchEvent
    \/ ExportPage
    \/ \E io \in {"nofile", "partial"} : \E n \in 0..DataRows : ExportFails(io, n)

\* C17: the sender never waits for the server: a send in progress can return
\* and a sender at its prompt can take any command, and on an open
\* connection transmit it, whatever page requests are unanswered; and the
\* receiver can take a waiting event whatever the sender does. So with a
\* reply waiting and the sender at its prompt both may go first.
C17_NoCommandWaits ==
    /\ spc = "sending" => ENABLED SendReturned
    /\ (spc = "input" /\ Len(issued) < MaxCmds) =>
          \A ns \in PairCommands :
              /\ ENABLED HandleCommand(ns)
              /\ wsOpen => ENABLED (HandleCommand(ns) /\ Len(sent') = Len(sent) + 1)
    /\ (rpc = "recv" /\ queue # <<>>) => ENABLED ReceiverTakes

C17_Witness ==
    /\ Len(sent) = 2
    /\ spc = "input"
    /\ session = "Active"
    /\ answered = {1}
    /\ Len(queue) = 1
    /\ queue[1].event.type = "PaginatedResultEvent"
    /\ queue[1].event.req = 1
    /\ rpc = "recv"

====
